---- MODULE Spec2Model ----
(***************************************************************************)
(* Model of jetscii's byte-set searcher (src/src/bytes.rs).                *)
(*                                                                         *)
(* A u64 is written as a sequence of 8 bytes, least significant byte       *)
(* first, because the values of a 64-bit word do not fit the integers of   *)
(* the model checker.  Shifts by 8 and by 56 bits are then moves of whole  *)
(* bytes, and the bitwise or is computed bit by bit inside every byte.     *)
(*                                                                         *)
(* Two specifications share the definitions:                               *)
(*   SpecBuild  builds needle sets with new / from_words / push;           *)
(*   Spec       runs position on a built needle set, first as the build    *)
(*              without the packed-compare instructions does (the linear   *)
(*              scan with the fallback predicate), then as the build with  *)
(*              them does (initial / body over 16-byte windows).           *)
(***************************************************************************)
EXTENDS Integers, Sequences, FiniteSets, TLC

VARIABLES needle_lo, needle_hi, count,   \* the fields of Bytes
          stated,      \* the count argument the set was constructed with
          pushed,      \* the bytes pushed since construction, oldest first
          panicked,    \* TRUE once an assert! has failed
          op,          \* the operation that produced the state
          haystack,    \* the slice handed to position
          pc,          \* where the position call is
          idx,         \* linear scan: number of bytes the iterator consumed
          fb_result,   \* linear scan: the Option<usize> returned
          mis,         \* windowed scan: the slice start modulo 16
          offset,      \* windowed scan: slice index where the next window starts
          ac_result,   \* windowed scan: the Option<usize> returned
          seen,        \* number of times each haystack byte was compared in this call
          members      \* the bytes the caller put in the set: what the fallback closure accepts

vars == <<needle_lo, needle_hi, count, stated, pushed, panicked, op,
          haystack, pc, idx, fb_result, mis, offset, ac_result, seen, members>>

bytesVars == <<needle_lo, needle_hi, count, stated, pushed, panicked, members>>
scanVars == <<haystack, pc, idx, fb_result, mis, offset, ac_result, seen>>

----------------------------------------------------------------------------
(* Bounds of the model. *)

MaxPad == 32      \* longest run of one filler byte at the head of a haystack

(* Bytes the inputs are drawn from: 0x00, 'A', 'B', 0x80, 0xFF. *)
Alphabet == {0, 65, 66, 128, 255}
(* Bytes pushed when all push sequences up to 17 pushes are enumerated. *)
BuildAlphabet == {65, 128}
(* Filler bytes of a haystack. *)
FillBytes == {0, 255}

----------------------------------------------------------------------------
(* Machine arithmetic. *)

U8 == 256

MAX_BYTES == 16

ZeroWord == <<0, 0, 0, 0, 0, 0, 0, 0>>

RECURSIVE BitOr(_, _, _)
BitOr(a, b, n) ==
    IF n = 0 THEN 0
    ELSE IF a = 0 THEN b
    ELSE IF b = 0 THEN a
    ELSE (IF a % 2 = 1 \/ b % 2 = 1 THEN 1 ELSE 0)
         + 2 * BitOr(a \div 2, b \div 2, n - 1)

(* w << 8 on a u64: every byte moves one place up, the top byte is lost. *)
Shl8(w) == <<0>> \o SubSeq(w, 1, 7)

(* Mutant: the shift is by 64 - 16 bits. *)
Shr48(w) == <<w[7], w[8], 0, 0, 0, 0, 0, 0>>

(* w >> (64 - 8) on a u64: the top byte lands in the lowest place. *)
Shr56(w) == <<w[8], 0, 0, 0, 0, 0, 0, 0>>

(* a | b on u64. *)
OrWord(a, b) == [i \in 1 .. 8 |-> BitOr(a[i], b[i], 8)]

(* byte as u64 *)
ByteAsWord(b) == <<b, 0, 0, 0, 0, 0, 0, 0>>

(* count as u8, from usize *)
AsU8(n) == n % U8

----------------------------------------------------------------------------
(* Construction of Bytes. *)

(* Mutant: the count is stored as it is given, not as a u8. *)
from_words_wide(lo, hi, cnt) == [needle_lo |-> lo, needle_hi |-> hi, count |-> cnt]

from_words(lo, hi, cnt) == [needle_lo |-> lo, needle_hi |-> hi, count |-> AsU8(cnt)]

new == from_words(ZeroWord, ZeroWord, 0)

(* Mutant: the assertion lets a seventeenth byte in. *)
PushAssertLax(cnt) == cnt <= MAX_BYTES

(* assert!(self.count < MAX_BYTES) *)
PushAssert(cnt) == cnt < MAX_BYTES

(* The body of push after the assertion, on a value of Bytes. *)
push(b, byte) ==
    LET hi1 == Shl8(b.needle_hi)
        hi2 == OrWord(hi1, Shr56(b.needle_lo))
        lo1 == Shl8(b.needle_lo)
        lo2 == OrWord(lo1, ByteAsWord(byte))
    IN  [needle_lo |-> lo2, needle_hi |-> hi2, count |-> b.count + 1]

RECURSIVE PushAll(_, _)
PushAll(b, bs) ==
    IF bs = <<>> THEN b ELSE PushAll(push(b, Head(bs)), Tail(bs))

self == [needle_lo |-> needle_lo, needle_hi |-> needle_hi, count |-> count]

(* The 16 byte lanes of a needle set, lowest lane of needle_lo first. *)
Lanes(b) == b.needle_lo \o b.needle_hi

Min(a, b) == IF a < b THEN a ELSE b

(* "using only the first `count` bytes": the bytes a caller of from_words   *)
(* names, which the fallback closure of that caller accepts.                *)
FirstBytes(lo, hi, cnt) == {(lo \o hi)[k] : k \in 1 .. Min(cnt, 16)}

Range(s) == {s[i] : i \in 1 .. Len(s)}

----------------------------------------------------------------------------
(* Inputs. *)

Word1 == <<1, 2, 3, 4, 5, 6, 7, 8>>
Word2 == <<9, 10, 11, 12, 13, 14, 15, 16>>
(* Words made of the bytes of the alphabet. *)
WordA == <<65, 66, 128, 255, 0, 65, 128, 255>>
WordB == <<66, 66, 66, 66, 66, 66, 66, 0>>

BuildCounts == {9, 15, 16, 17, 255, 256, 300}

ScanInit ==
    /\ haystack = <<>>
    /\ pc = "built"
    /\ idx = 0
    /\ fb_result = <<"Pending">>
    /\ mis = 0
    /\ offset = 0
    /\ ac_result = <<"Pending">>
    /\ seen = <<>>

(* Bytes::new() *)
InitNew ==
    /\ needle_lo = new.needle_lo
    /\ needle_hi = new.needle_hi
    /\ count = new.count
    /\ stated = 0
    /\ pushed = <<>>
    /\ members = {}
    /\ panicked = FALSE
    /\ op = "new"

(* Bytes::from_words(lo, hi, cnt) *)
InitFromWords(lo, hi, cnt) ==
    /\ needle_lo = from_words(lo, hi, cnt).needle_lo
    /\ needle_hi = from_words(lo, hi, cnt).needle_hi
    /\ count = from_words(lo, hi, cnt).count
    /\ stated = cnt
    /\ pushed = <<>>
    /\ members = FirstBytes(lo, hi, cnt)
    /\ panicked = FALSE
    /\ op = "from_words"

InitBuild ==
    /\ \/ InitNew
       \/ \E cnt \in BuildCounts : InitFromWords(Word1, Word2, cnt)
    /\ ScanInit

(* needle.push(byte) *)
Push(byte) ==
    /\ pc = "built"
    /\ ~panicked
    /\ op' = "push"
    /\ IF PushAssert(count)
       THEN /\ LET after == push(self, byte)
               IN  /\ needle_lo' = after.needle_lo
                   /\ needle_hi' = after.needle_hi
                   /\ count' = after.count
            /\ pushed' = Append(pushed, byte)
            /\ members' = members \cup {byte}
            /\ UNCHANGED <<stated, panicked>>
       ELSE /\ panicked' = TRUE
            /\ UNCHANGED <<needle_lo, needle_hi, count, stated, pushed, members>>
    /\ UNCHANGED scanVars

----------------------------------------------------------------------------
(* The packed-compare instructions, as initial and body use them:          *)
(* imm8 = 0 selects unsigned bytes, "equal any", positive polarity and the *)
(* least significant index; the explicit lengths saturate at 16.           *)

Saturate(n) == IF n > 16 THEN 16 ELSE n

(* Mutant: the comparison drops the high bit of the bytes. *)
ByteEqLow7(a, b) == a % 128 = b % 128

(* imm8[1:0] = 00: the elements are unsigned bytes, compared for equality. *)
ByteEq(a, b) == a = b

(* IntRes2 of "equal any": the positions j (from 0) of the 16 loaded bytes  *)
(* within the explicit length lb that equal one of the first la lanes of   *)
(* the register.                                                           *)
EqualAny(xmm, la, m128, lb) ==
    {j \in 0 .. 15 :
        /\ j < Saturate(lb)
        /\ \E k \in 1 .. Saturate(la) : ByteEq(m128[j + 1], xmm[k])}

SetMin(S) == CHOOSE x \in S : \A y \in S : x <= y

RECURSIVE Pow2(_)
Pow2(n) == IF n = 0 THEN 1 ELSE 2 * Pow2(n - 1)

RECURSIVE BitMask(_, _)
BitMask(S, j) ==
    IF j > 15 THEN 0
    ELSE (IF j \in S THEN Pow2(j) ELSE 0) + BitMask(S, j + 1)

(* pcmpestri: the index of the first match in ecx, 16 when there is none. *)
pcmpestri(xmm, la, m128, lb) ==
    LET res == EqualAny(xmm, la, m128, lb)
    IN  IF res = {} THEN 16 ELSE SetMin(res)

(* pcmpestrm with imm8[6] = 0: the bit mask of the matches, in xmm0. *)
pcmpestrm(xmm, la, m128, lb) == BitMask(EqualAny(xmm, la, m128, lb), 0)

(* movlhps $2, $1: the low half of needle_hi becomes the high half of the  *)
(* register that holds needle_lo.                                          *)
movlhps(lo, hi) == lo \o hi

(* Memory around the slice, by address relative to the slice start: the    *)
(* slice itself, and bytes the call does not own (junk) on both sides.     *)
Memory(h, junk) == [slice |-> h, other |-> junk]

ReadByte(mem, a) ==
    IF a >= 0 /\ a < Len(mem.slice) THEN mem.slice[a + 1] ELSE mem.other

(* The 16 bytes a packed-compare instruction loads at an address. *)
Load128(mem, addr) == [j \in 1 .. 16 |-> ReadByte(mem, addr + j - 1)]

(* Mutant: the length of the loaded bytes leaves out the offset. *)
initial_len_only(b, mem, ptr, off, len) ==
    pcmpestrm(movlhps(b.needle_lo, b.needle_hi), b.count, Load128(mem, ptr), len)

(* PackedCompareOperation::initial for Bytes *)
initial(b, mem, ptr, off, len) ==
    pcmpestrm(movlhps(b.needle_lo, b.needle_hi), b.count, Load128(mem, ptr), off + len)

(* Mutant: the needle length is 16 whatever count is. *)
body_all_lanes(b, mem, ptr, off, len) ==
    pcmpestri(movlhps(b.needle_lo, b.needle_hi), 16, Load128(mem, ptr + off), len)

(* Mutant: the window is loaded from ptr, not from ptr + offset. *)
body_no_offset(b, mem, ptr, off, len) ==
    pcmpestri(movlhps(b.needle_lo, b.needle_hi), b.count, Load128(mem, ptr), len)

(* PackedCompareOperation::body for Bytes *)
body(b, mem, ptr, off, len) ==
    pcmpestri(movlhps(b.needle_lo, b.needle_hi), b.count, Load128(mem, ptr + off), len)

----------------------------------------------------------------------------
(* position *)

None == <<"None">>
Some(i) == <<"Some", i>>

(* The closure given to with_fallback: "The fallback should search for the *)
(* **exact** same set of bytes."                                           *)
fallback(byte) == byte \in members

RECURSIVE trailing_zeros(_)
trailing_zeros(m) == IF m % 2 = 1 THEN 0 ELSE 1 + trailing_zeros(m \div 2)

Bump(f, S) == [i \in DOMAIN f |-> IF i \in S THEN f[i] + 1 ELSE f[i]]

Pad(f, p) == [i \in 1 .. p |-> f]

Tails ==
    {<<>>} \cup {<<a>> : a \in Alphabet} \cup {<<a, b>> : a \in {65, 128}, b \in {66, 255}}

HaystackInputs == {Pad(f, p) \o t : f \in FillBytes, p \in 0 .. MaxPad, t \in Tails}

Misalignments == {0, 5}

JunkInputs == {0, 66}

(* needle.position(&haystack), in the build without the packed-compare     *)
(* feature: the call enters haystack.iter().cloned().position(..).         *)
CallPosition(h) ==
    /\ pc = "built"
    /\ ~panicked
    /\ haystack' = h
    /\ pc' = "fallback"
    /\ idx' = 0
    /\ seen' = [i \in 1 .. Len(h) |-> 0]
    /\ op' = "position"
    /\ UNCHANGED <<fb_result, mis, offset, ac_result>>
    /\ UNCHANGED bytesVars

(* Mutant: the index returned is one past the matching byte. *)
FallbackStepOffByOne ==
    /\ pc = "fallback"
    /\ IF idx < Len(haystack)
       THEN /\ seen' = Bump(seen, {idx + 1})
            /\ IF fallback(haystack[idx + 1])
               THEN /\ fb_result' = Some(idx + 1)
                    /\ pc' = "returned"
                    /\ idx' = idx
               ELSE /\ idx' = idx + 1
                    /\ UNCHANGED <<fb_result, pc>>
       ELSE /\ fb_result' = None
            /\ pc' = "returned"
            /\ UNCHANGED <<idx, seen>>
    /\ UNCHANGED <<haystack, mis, offset, ac_result, op>>
    /\ UNCHANGED bytesVars

(* Mutant: the scan goes on after a match and returns at the end of the    *)
(* slice with the last match.                                              *)
FallbackStepLast ==
    /\ pc = "fallback"
    /\ IF idx < Len(haystack)
       THEN /\ seen' = Bump(seen, {idx + 1})
            /\ idx' = idx + 1
            /\ fb_result' = IF fallback(haystack[idx + 1]) THEN Some(idx) ELSE fb_result
            /\ UNCHANGED pc
       ELSE /\ fb_result' = IF fb_result = <<"Pending">> THEN None ELSE fb_result
            /\ pc' = "returned"
            /\ UNCHANGED <<idx, seen>>
    /\ UNCHANGED <<haystack, mis, offset, ac_result, op>>
    /\ UNCHANGED bytesVars

(* One turn of Iterator::position: take the next byte, test it. *)
FallbackStep ==
    /\ pc = "fallback"
    /\ IF idx < Len(haystack)
       THEN /\ seen' = Bump(seen, {idx + 1})
            /\ IF fallback(haystack[idx + 1])
               THEN /\ fb_result' = Some(idx)
                    /\ pc' = "returned"
                    /\ idx' = idx
               ELSE /\ idx' = idx + 1
                    /\ UNCHANGED <<fb_result, pc>>
       ELSE /\ fb_result' = None
            /\ pc' = "returned"
            /\ UNCHANGED <<idx, seen>>
    /\ UNCHANGED <<haystack, mis, offset, ac_result, op>>
    /\ UNCHANGED bytesVars

(* The same call in the build with the packed-compare feature: position    *)
(* hands the needle set to UnalignedByteSliceHandler::find, whose first    *)
(* window is probed with initial from the aligned address below the slice. *)
FindInitial(m, junk) ==
    /\ pc = "returned"
    /\ LET mem == Memory(haystack, junk)
           len == Len(haystack)
           mask == initial(self, mem, 0 - m, m, len) \div Pow2(m)
           taken == Min(16 - m, len)
       IN  /\ seen' = Bump([i \in 1 .. len |-> 0], 1 .. taken)
           /\ mis' = m
           /\ IF mask # 0
              THEN /\ ac_result' = Some(trailing_zeros(mask))
                   /\ pc' = "done"
                   /\ offset' = 0
              ELSE IF taken >= len
              THEN /\ ac_result' = None
                   /\ pc' = "done"
                   /\ offset' = taken
              ELSE /\ pc' = "body"
                   /\ offset' = taken
                   /\ UNCHANGED ac_result
    /\ UNCHANGED <<haystack, idx, fb_result, op>>
    /\ UNCHANGED bytesVars

(* The following windows are probed with body. *)
FindBody(junk) ==
    /\ pc = "body"
    /\ LET mem == Memory(haystack, junk)
           len == Len(haystack) - offset
           res == body(self, mem, 0, offset, len)
       IN  /\ seen' = Bump(seen, (offset + 1) .. (offset + Saturate(len)))
           /\ IF res # 16
              THEN /\ ac_result' = Some(offset + res)
                   /\ pc' = "done"
                   /\ UNCHANGED offset
              ELSE IF len <= 16
              THEN /\ ac_result' = None
                   /\ pc' = "done"
                   /\ UNCHANGED offset
              ELSE /\ offset' = offset + 16
                   /\ UNCHANGED <<ac_result, pc>>
    /\ UNCHANGED <<haystack, idx, fb_result, mis, op>>
    /\ UNCHANGED bytesVars

NextBuild == \E byte \in BuildAlphabet : Push(byte)

SpecBuild == InitBuild /\ [][NextBuild]_vars

----------------------------------------------------------------------------
(* Searching: the needle sets searched with are built by new and pushes,   *)
(* or by from_words.                                                       *)

ShortPushes ==
    {<<>>} \cup {<<a>> : a \in Alphabet}
    \cup {<<p[1], p[2]>> : p \in {q \in Alphabet \X Alphabet : q[1] < q[2]}}

(* 16 pushes: one byte, then 15 times another, and the other way round. *)
FullPushes ==
    {<<a>> \o Pad(f, MAX_BYTES - 1) : a \in Alphabet, f \in {65, 255}}
    \cup {Pad(f, MAX_BYTES - 1) \o <<a>> : a \in {0, 128}, f \in {65}}

PushInputs == ShortPushes \cup FullPushes

WordInputs == {<<WordA, WordB>>}

SearchCounts == {0, 3, 16, 17, 255, 256, 259, 272}

InitPushed(bs) ==
    /\ needle_lo = PushAll(new, bs).needle_lo
    /\ needle_hi = PushAll(new, bs).needle_hi
    /\ count = PushAll(new, bs).count
    /\ stated = 0
    /\ pushed = bs
    /\ members = Range(bs)
    /\ panicked = FALSE
    /\ op = IF bs = <<>> THEN "new" ELSE "push"

Init ==
    /\ \/ \E bs \in PushInputs : InitPushed(bs)
       \/ \E w \in WordInputs, cnt \in SearchCounts : InitFromWords(w[1], w[2], cnt)
    /\ ScanInit

Next ==
    \/ \E h \in HaystackInputs : CallPosition(h)
    \/ FallbackStep
    \/ \E m \in Misalignments, junk \in JunkInputs : FindInitial(m, junk)
    \/ \E junk \in JunkInputs : FindBody(junk)

Spec == Init /\ [][Next]_vars

(* The calls of a few needle sets, for the behaviours as wholes.  A call   *)
(* is synchronous code: every step that can be taken is taken.             *)
LivePushes == {<<65, 66>>}

InitLive ==
    /\ \/ \E bs \in LivePushes : InitPushed(bs)
       \/ InitFromWords(WordA, WordB, 16)
    /\ ScanInit

FairSpec == InitLive /\ [][Next]_vars /\ WF_vars(Next)

----------------------------------------------------------------------------
(* What the claims speak of. *)

Matches(h, S) == {i \in 1 .. Len(h) : h[i] \in S}

(* The lowest index of h that holds a byte of S, as an Option. *)
FirstIn(h, S) == IF Matches(h, S) = {} THEN None ELSE Some(SetMin(Matches(h, S)) - 1)

(* The bytes in the lanes below n. *)
LaneBytes(n) == {Lanes(self)[k] : k \in 1 .. n}

FallbackReturned == pc \in {"returned", "body", "done"}

FromNew == stated = 0 /\ count = Len(pushed)

----------------------------------------------------------------------------
(* C1: with the fallback predicate equal to membership in the needle set,  *)
(* position returns Some(i) exactly when i is the lowest index whose byte  *)
(* is in the set, and None exactly when no byte of the haystack is in it   *)
(* (so None for the empty haystack and for the empty set).                 *)
C1_FirstMatch ==
    FallbackReturned =>
        /\ fb_result = FirstIn(haystack, members)
        /\ (haystack = <<>> \/ members = {}) => fb_result = None

C1_Witness ==
    /\ FallbackReturned
    /\ FromNew
    /\ Len(pushed) = 2
    /\ Cardinality(Matches(haystack, members)) >= 2
    /\ fb_result = Some(3)

(* C2: for needle sets of 0 to 16 bytes the windowed scan returns what the *)
(* linear scan with the exact membership predicate returns.                *)
C2_Equivalence ==
    (pc = "done" /\ stated <= 16) => ac_result = fb_result

C2_Witness ==
    /\ pc = "done"
    /\ FromNew
    /\ Len(pushed) = 16
    /\ mis = 5
    /\ ac_result = Some(32)
    /\ fb_result = Some(32)

(* C3: a push on a set whose count is 16 (or more) panics and leaves       *)
(* needle_lo, needle_hi and count as they were; a push on a set with       *)
(* count < 16 succeeds and adds one to count.                              *)
C3_PushPanics ==
    [][ /\ count >= 16 => (panicked' /\ UNCHANGED <<needle_lo, needle_hi, count>>)
        /\ count < 16 => (~panicked' /\ count' = count + 1
                           /\ Len(pushed') = Len(pushed) + 1) ]_vars

C3_Witness ==
    /\ panicked
    /\ FromNew
    /\ count = 16
    /\ Len(pushed) = 16

(* C4: a set built by from_words with a stated count above 16 is searched  *)
(* as from_words(lo, hi, 16) is: all 16 lanes are search targets.          *)
C4_Saturation ==
    (pc = "done" /\ stated > 16 /\ pushed = <<>>) =>
        ac_result = FirstIn(haystack, LaneBytes(16))

(* C5: a needle byte with the high bit set is matched by exact equality:   *)
(* position is the index of the first haystack byte equal to it.           *)
C5_HighBit ==
    (pc = "done" /\ FromNew /\ Len(pushed) = 1 /\ pushed[1] >= 128) =>
        /\ fb_result = FirstIn(haystack, {pushed[1]})
        /\ ac_result = FirstIn(haystack, {pushed[1]})

C5_Witness ==
    /\ pc = "done"
    /\ pushed = <<128>>
    /\ stated = 0
    /\ haystack = <<255, 128>>
    /\ fb_result = Some(1)
    /\ ac_result = Some(1)

(* C6: push shifts the 128-bit register left by 8 bits, the top byte of    *)
(* needle_lo moving into the bottom byte of needle_hi, and puts the byte   *)
(* in the low 8 bits of needle_lo; after pushing b1..bn onto new(), lane k *)
(* holds b(n-k) for every k < n and count = n.                             *)
C6_Layout ==
    /\ [](stated = 0 =>
            /\ count = Len(pushed)
            /\ \A k \in 0 .. (Len(pushed) - 1) :
                    Lanes(self)[k + 1] = pushed[Len(pushed) - k])
    /\ [][~panicked' =>
            /\ needle_lo' = <<pushed'[Len(pushed')]>> \o SubSeq(needle_lo, 1, 7)
            /\ needle_hi' = <<needle_lo[8]>> \o SubSeq(needle_hi, 1, 7)
            /\ count' = count + 1]_vars

C6_Witness ==
    /\ stated = 0
    /\ count = 16
    /\ ~panicked
    /\ needle_hi[8] = 65
    /\ needle_lo[1] = 128
    /\ pushed[1] = 65
    /\ pushed[16] = 128

(* C7 as stated: count is at most 16 in every reachable needle set. *)
C7_CountAtMost16 == count >= 0 /\ count <= 16

(* C7, amended: count is the stated count modulo 256 plus the number of    *)
(* pushes, between 0 and 255, and at most 16 whenever the set was built    *)
(* from a stated count (modulo 256) of at most 16.                         *)
C7_CountRange ==
    /\ count = AsU8(stated) + Len(pushed)
    /\ count >= 0 /\ count <= 255
    /\ AsU8(stated) <= 16 => count <= 16

C7_Witness ==
    /\ stated = 9
    /\ Len(pushed) = 7
    /\ count = 16
    /\ panicked

(* C8: lanes at index >= count are never search targets: with count < 16   *)
(* position is the lowest index whose byte is in one of the first count    *)
(* lanes, whatever the lanes above hold.                                   *)
C8_InactiveLanes ==
    (pc = "done" /\ count < 16) => ac_result = FirstIn(haystack, LaneBytes(count))

C8_Witness ==
    /\ pc = "done"
    /\ count = 3
    /\ stated = 3
    /\ Matches(haystack, LaneBytes(16) \ LaneBytes(3)) # {}
    /\ Matches(haystack, LaneBytes(3)) = {}
    /\ Len(haystack) > 16
    /\ ac_result = None

(* C9: the windowed scan takes consecutive windows of at most 16 bytes and *)
(* returns the absolute index of the first match: a haystack whose only    *)
(* matching byte is at index i yields Some(i), and a window without a      *)
(* match makes the scan go on with the next window.                        *)
C9_Windows ==
    /\ (pc = "done" /\ stated <= 16 /\ Cardinality(Matches(haystack, members)) = 1) =>
            \A i \in Matches(haystack, members) : ac_result = Some(i - 1)
    /\ pc = "body" =>
            /\ offset > 0
            /\ offset < Len(haystack)
            /\ (offset + mis) % 16 = 0
            /\ stated <= 16 => Matches(SubSeq(haystack, 1, offset), members) = {}

C9_Witness ==
    /\ pc = "done"
    /\ pushed = <<65, 66>>
    /\ stated = 0
    /\ mis = 0
    /\ Matches(haystack, members) = {33}
    /\ offset = 32
    /\ ac_result = Some(32)

(* C10 as stated: when a call has returned, every haystack byte has been   *)
(* inspected exactly once.                                                 *)
C10_ExactlyOnce ==
    (pc \in {"returned", "done"}) => \A i \in DOMAIN seen : seen[i] = 1

Inspected == {i \in DOMAIN seen : seen[i] > 0}

(* C10, amended: every call runs to completion on both paths and no byte   *)
(* is inspected more than once; the linear path has inspected exactly the  *)
(* bytes up to and including the first match (all of them when there is    *)
(* none), the windowed path exactly the bytes of the windows up to and     *)
(* including the one with the first match.                                 *)
C10_Completes ==
    /\ [](\A i \in DOMAIN seen : seen[i] <= 1)
    /\ [](pc = "returned" =>
            Inspected = 1 .. (IF fb_result = None THEN Len(haystack) ELSE fb_result[2] + 1))
    /\ [](pc = "done" =>
            Inspected = 1 .. (IF ac_result = None THEN Len(haystack)
                             ELSE Min(Len(haystack), offset + (IF offset = 0 THEN 16 - mis ELSE 16))))
    /\ (pc = "fallback") ~> (pc = "done")

C10_Witness ==
    /\ pc = "done"
    /\ mis = 5
    /\ Len(haystack) = 12
    /\ ac_result = Some(10)
    /\ fb_result = Some(10)
    /\ Inspected = 1 .. 11

====
